---- MODULE Spec2Model ----
(***************************************************************************)
(* Model of the linked-list sparse matrix of src/matrice.cpp.              *)
(*                                                                         *)
(* A row list (RowNode chain) is a sequence of records                     *)
(*   [row |-> r, elements |-> <<[col |-> c, value |-> v], ...>>]           *)
(* in chain order; a null pointer is index 0 / the empty sequence.         *)
(*                                                                         *)
(* Values are fixed-point numbers counted in quanta: One quanta make 1.0   *)
(* and Eps quanta make the threshold 1e-10 of the code, so that values     *)
(* with 0 < |v| < Eps exist.  Sums and differences of quanta are exact.    *)
(***************************************************************************)
EXTENDS Integers, Sequences, FiniteSets

VARIABLES rows, cols, rowList, last, matrices, choice

vars == <<rows, cols, rowList, last, matrices, choice>>

(***************************************************************************)
(* Bounds of the model and the program's constant.                         *)
(***************************************************************************)
\* the largest number of cells rows * cols of a matrix built by insert calls
MaxCells == 4
\* the largest number of rows of such a matrix
MaxRows == 3
\* quanta per 1.0 (resolution of the fixed-point values)
One == 4
\* the threshold 1e-10 of the code, in quanta
Eps == 2

\* the dimensions a matrix is constructed with
Dims == {d \in (1..MaxRows) \X (1..MaxCells) : d[1] * d[2] <= MaxCells}

\* the values handed to insert: zero, a nonzero value below the threshold in
\* magnitude, and two values that are stored
Vals == {-Eps, 1 - Eps, 0, Eps}

\* the cell values typed into readMatrix for the operand of an operation
OperandVals == {-Eps, 0, Eps + 1}

Abs(x) == IF x < 0 THEN -x ELSE x

RowNode(r) == [row |-> r, elements |-> <<>>]

MatrixNode(c, v) == [col |-> c, value |-> v]

\* SparseMatrix(r, c): the constructed object, with an empty row list
SparseMatrix(r, c) == [rows |-> r, cols |-> c, rowList |-> <<>>]

\* the absence of a matrix (an operation that threw returns none)
NoMatrix == [rows |-> 0, cols |-> 0, rowList |-> <<>>]

InsertAt(s, i, e) == SubSeq(s, 1, i - 1) \o <<e>> \o SubSeq(s, i, Len(s))

RemoveAt(s, i) == SubSeq(s, 1, i - 1) \o SubSeq(s, i + 1, Len(s))

(***************************************************************************)
(* getRowNode                                                              *)
(***************************************************************************)
\* the search loop of getRowNode with its comparison turned round
RECURSIVE ScanRowsWrongTest(_, _, _)
ScanRowsWrongTest(list, r, i) ==
    IF i <= Len(list) /\ list[i].row > r THEN ScanRowsWrongTest(list, r, i + 1) ELSE i

\* the loop "while (current != nullptr && current->row < r)": the index at
\* which it stops, Len + 1 standing for nullptr
RECURSIVE ScanRows(_, _, _)
ScanRows(list, r, i) ==
    IF i <= Len(list) /\ list[i].row < r THEN ScanRows(list, r, i + 1) ELSE i

\* [err, what, list, idx]: whether it threw and the message of the exception,
\* the row list afterwards, and the index of the returned row node (0 for
\* nullptr)
getRowNode(m, r, create) ==
    IF r < 0 \/ r >= m.rows
    THEN [err |-> TRUE, what |-> "Row index out of range", list |-> m.rowList, idx |-> 0]
    ELSE IF m.rowList = <<>> /\ create
    THEN [err |-> FALSE, what |-> "", list |-> <<RowNode(r)>>, idx |-> 1]
    ELSE IF m.rowList # <<>> /\ m.rowList[1].row > r /\ create
    THEN [err |-> FALSE, what |-> "", list |-> <<RowNode(r)>> \o m.rowList, idx |-> 1]
    ELSE LET i == ScanRows(m.rowList, r, 1) IN
         IF i <= Len(m.rowList) /\ m.rowList[i].row = r
         THEN [err |-> FALSE, what |-> "", list |-> m.rowList, idx |-> i]
         ELSE IF create
         THEN [err |-> FALSE, what |-> "", list |-> InsertAt(m.rowList, i, RowNode(r)), idx |-> i]
         ELSE [err |-> FALSE, what |-> "", list |-> m.rowList, idx |-> 0]

(***************************************************************************)
(* removeFromRow                                                           *)
(***************************************************************************)
\* the loop "while (current != nullptr && current->col != c)"
RECURSIVE ScanForCol(_, _, _)
ScanForCol(elems, c, i) ==
    IF i <= Len(elems) /\ elems[i].col # c THEN ScanForCol(elems, c, i + 1) ELSE i

\* removeFromRow without its search loop: only the head is ever removed
removeFromRowHeadOnly(elems, c) ==
    IF elems = <<>> THEN elems
    ELSE IF elems[1].col = c THEN Tail(elems)
    ELSE elems

\* the element chain of the row after removeFromRow(rowNode, c)
removeFromRow(elems, c) ==
    IF elems = <<>> THEN elems
    ELSE IF elems[1].col = c THEN Tail(elems)
    ELSE LET i == ScanForCol(elems, c, 2) IN
         IF i <= Len(elems) THEN RemoveAt(elems, i) ELSE elems

(***************************************************************************)
(* insertIntoRow                                                           *)
(***************************************************************************)
\* the loop "while (current != nullptr && current->col < c)"
RECURSIVE ScanCols(_, _, _)
ScanCols(elems, c, i) ==
    IF i <= Len(elems) /\ elems[i].col < c THEN ScanCols(elems, c, i + 1) ELSE i

\* insertIntoRow without the test for a later column: the element the search
\* stops at is overwritten even when its column is not c
insertIntoRowOverwriteNext(m, elems, c, v) ==
    IF c < 0 \/ c >= m.cols
    THEN [err |-> TRUE, what |-> "Column index out of range", elements |-> elems]
    ELSE IF Abs(v) < Eps
    THEN [err |-> FALSE, what |-> "", elements |-> removeFromRow(elems, c)]
    ELSE IF elems = <<>>
    THEN [err |-> FALSE, what |-> "", elements |-> <<MatrixNode(c, v)>>]
    ELSE IF elems[1].col > c
    THEN [err |-> FALSE, what |-> "", elements |-> <<MatrixNode(c, v)>> \o elems]
    ELSE LET i == ScanCols(elems, c, 1) IN
         IF i <= Len(elems)
         THEN [err |-> FALSE, what |-> "", elements |-> [elems EXCEPT ![i] = MatrixNode(c, v)]]
         ELSE [err |-> FALSE, what |-> "", elements |-> InsertAt(elems, i, MatrixNode(c, v))]

\* [err, what, elements]: whether it threw, the message, and the row's element
\* chain afterwards
insertIntoRow(m, elems, c, v) ==
    IF c < 0 \/ c >= m.cols
    THEN [err |-> TRUE, what |-> "Column index out of range", elements |-> elems]
    ELSE IF Abs(v) < Eps
    THEN [err |-> FALSE, what |-> "", elements |-> removeFromRow(elems, c)]
    ELSE IF elems = <<>>
    THEN [err |-> FALSE, what |-> "", elements |-> <<MatrixNode(c, v)>>]
    ELSE IF elems[1].col > c
    THEN [err |-> FALSE, what |-> "", elements |-> <<MatrixNode(c, v)>> \o elems]
    ELSE LET i == ScanCols(elems, c, 1) IN
         IF i <= Len(elems) /\ elems[i].col = c
         THEN [err |-> FALSE, what |-> "", elements |-> [elems EXCEPT ![i].value = v]]
         ELSE [err |-> FALSE, what |-> "", elements |-> InsertAt(elems, i, MatrixNode(c, v))]

(***************************************************************************)
(* cleanupEmptyRows                                                        *)
(***************************************************************************)
\* "while (rowList != nullptr && rowList->elements == nullptr)"
RECURSIVE DropEmptyHead(_)
DropEmptyHead(list) ==
    IF list # <<>> /\ list[1].elements = <<>> THEN DropEmptyHead(Tail(list)) ELSE list

\* the loop over the remaining rows, unlinking each empty one
RECURSIVE DropEmptyRest(_)
DropEmptyRest(list) ==
    IF list = <<>> THEN <<>>
    ELSE IF list[1].elements = <<>> THEN DropEmptyRest(Tail(list))
    ELSE <<list[1]>> \o DropEmptyRest(Tail(list))

\* cleanupEmptyRows without its second loop: only leading empty rows go
cleanupEmptyRowsHeadOnly(list) == DropEmptyHead(list)

cleanupEmptyRows(list) ==
    LET l == DropEmptyHead(list) IN
    IF l = <<>> THEN l ELSE <<l[1]>> \o DropEmptyRest(Tail(l))

(***************************************************************************)
(* insert                                                                  *)
(***************************************************************************)
\* insert with no handling of near-zero values at all: every value is linked
\* into the row, in place
insertStoresAll(m, r, c, v) ==
    LET g == getRowNode(m, r, TRUE) IN
    IF g.err THEN [err |-> TRUE, what |-> g.what, m |-> m]
    ELSE IF c < 0 \/ c >= m.cols
    THEN [err |-> TRUE, what |-> "Column index out of range",
          m |-> [m EXCEPT !.rowList = g.list]]
    ELSE LET elems == g.list[g.idx].elements
             i == ScanCols(elems, c, 1)
             e == IF i <= Len(elems) /\ elems[i].col = c
                  THEN [elems EXCEPT ![i].value = v]
                  ELSE InsertAt(elems, i, MatrixNode(c, v))
         IN  [err |-> FALSE, what |-> "",
              m |-> [m EXCEPT !.rowList = [g.list EXCEPT ![g.idx].elements = e]]]

\* [err, what, m]: whether insert(r, c, v) threw, the message, and the matrix
\* afterwards
insert(m, r, c, v) ==
    IF Abs(v) < Eps
    THEN LET g == getRowNode(m, r, FALSE) IN
         IF g.err THEN [err |-> TRUE, what |-> g.what, m |-> m]
         ELSE IF g.idx # 0
         THEN LET e == removeFromRow(m.rowList[g.idx].elements, c)
                  l == [m.rowList EXCEPT ![g.idx].elements = e]
              IN  [err |-> FALSE, what |-> "",
                   m |-> [m EXCEPT !.rowList =
                              IF e = <<>> THEN cleanupEmptyRows(l) ELSE l]]
         ELSE [err |-> FALSE, what |-> "", m |-> m]
    ELSE LET g == getRowNode(m, r, TRUE) IN
         IF g.err THEN [err |-> TRUE, what |-> g.what, m |-> m]
         ELSE LET ins == insertIntoRow(m, g.list[g.idx].elements, c, v) IN
              [err |-> ins.err, what |-> ins.what,
               m |-> [m EXCEPT !.rowList =
                          [g.list EXCEPT ![g.idx].elements = ins.elements]]]

(***************************************************************************)
(* get                                                                     *)
(***************************************************************************)
\* get with the column left out of its range test
getNoColumnTest(m, r, c) ==
    IF r < 0 \/ r >= m.rows
    THEN [err |-> TRUE, what |-> "Index out of range", value |-> 0]
    ELSE LET i == ScanRows(m.rowList, r, 1) IN
         IF i > Len(m.rowList) \/ m.rowList[i].row # r
         THEN [err |-> FALSE, what |-> "", value |-> 0]
         ELSE LET elems == m.rowList[i].elements
                  j == ScanCols(elems, c, 1)
              IN  IF j > Len(elems) \/ elems[j].col # c
                  THEN [err |-> FALSE, what |-> "", value |-> 0]
                  ELSE [err |-> FALSE, what |-> "", value |-> elems[j].value]

\* [err, what, value]: whether get(r, c) threw, the message, and the value it
\* returned
get(m, r, c) ==
    IF r < 0 \/ r >= m.rows \/ c < 0 \/ c >= m.cols
    THEN [err |-> TRUE, what |-> "Index out of range", value |-> 0]
    ELSE LET i == ScanRows(m.rowList, r, 1) IN
         IF i > Len(m.rowList) \/ m.rowList[i].row # r
         THEN [err |-> FALSE, what |-> "", value |-> 0]
         ELSE LET elems == m.rowList[i].elements
                  j == ScanCols(elems, c, 1)
              IN  IF j > Len(elems) \/ elems[j].col # c
                  THEN [err |-> FALSE, what |-> "", value |-> 0]
                  ELSE [err |-> FALSE, what |-> "", value |-> elems[j].value]

(***************************************************************************)
(* countNonZero                                                            *)
(***************************************************************************)
\* counting one for every row, whatever it holds
RECURSIVE CountRowsOnly(_, _)
CountRowsOnly(list, i) ==
    IF i > Len(list) THEN 0 ELSE 1 + CountRowsOnly(list, i + 1)

RECURSIVE CountFrom(_, _)
CountFrom(list, i) ==
    IF i > Len(list) THEN 0 ELSE Len(list[i].elements) + CountFrom(list, i + 1)

countNonZero(m) == CountFrom(m.rowList, 1)

(***************************************************************************)
(* Traversal of the stored elements in chain order (the nested while loops *)
(* of displaySparse, add, subtract, scalarMultiply, transpose).            *)
(***************************************************************************)
RECURSIVE RowTriples(_, _, _)
RowTriples(r, elems, j) ==
    IF j > Len(elems) THEN <<>>
    ELSE <<[row |-> r, col |-> elems[j].col, value |-> elems[j].value]>>
         \o RowTriples(r, elems, j + 1)

RECURSIVE Triples(_, _)
Triples(list, i) ==
    IF i > Len(list) THEN <<>>
    ELSE RowTriples(list[i].row, list[i].elements, 1) \o Triples(list, i + 1)

(***************************************************************************)
(* displaySparse: one line per stored element in chain order, then the     *)
(* total, which the loop counts line by line.                              *)
(***************************************************************************)
displaySparse(m) ==
    LET lines == Triples(m.rowList, 1) IN
    [lines |-> lines, nonZeroCount |-> Len(lines)]

(***************************************************************************)
(* display: the notice when rowList is null, the rows x cols grid of get   *)
(* otherwise.                                                              *)
(***************************************************************************)
AllZerosNotice == "Empty matrix (all zeros)"

display(m) ==
    IF m.rowList = <<>>
    THEN [what |-> AllZerosNotice, grid |-> <<>>]
    ELSE [what |-> "",
          grid |-> [i \in 1..m.rows |->
                      [j \in 1..m.cols |-> get(m, i - 1, j - 1).value]]]

(***************************************************************************)
(* add                                                                     *)
(***************************************************************************)
\* the outcome of an operation that returns a matrix: thrown, or built so far
Thrown(what) == [err |-> TRUE, what |-> what, m |-> NoMatrix]

Built(m) == [err |-> FALSE, what |-> "", m |-> m]

\* the class of the exception thrown with the message what: the index tests
\* throw std::out_of_range, every other throw is a std::invalid_argument
ExceptionClass(what) ==
    IF what \in {"Row index out of range", "Column index out of range",
                 "Index out of range"}
    THEN "out_of_range"
    ELSE "invalid_argument"

\* first loop of add: result.insert(row, col, value) for every element of
\* this, in order; acc is the outcome so far, and an insert that throws ends
\* the call.  subtract, transpose and inverse insert their elements alike.
RECURSIVE InsertEach(_, _, _)
InsertEach(acc, ts, i) ==
    IF acc.err \/ i > Len(ts) THEN acc
    ELSE InsertEach(insert(acc.m, ts[i].row, ts[i].col, ts[i].value), ts, i + 1)

\* the second loop of add without the read of the current value
AddStepOverwrite(m, t) == insert(m, t.row, t.col, t.value)

\* one step of the second loop of add:
\* currentValue = result.get(row, col); result.insert(row, col, currentValue + value)
AddStep(m, t) ==
    LET g == get(m, t.row, t.col) IN
    IF g.err THEN [err |-> TRUE, what |-> g.what, m |-> m]
    ELSE insert(m, t.row, t.col, g.value + t.value)

\* the second loop of add leaving after its first element
AddPassFirstOnly(acc, ts, i) ==
    IF acc.err \/ i > Len(ts) THEN acc ELSE AddStep(acc.m, ts[i])

RECURSIVE AddPass(_, _, _)
AddPass(acc, ts, i) ==
    IF acc.err \/ i > Len(ts) THEN acc
    ELSE AddPass(AddStep(acc.m, ts[i]), ts, i + 1)

\* add comparing the row counts only
addRowsOnlyTest(this, other) ==
    IF this.rows # other.rows
    THEN Thrown("Matrix dimensions do not match for addition")
    ELSE LET first == InsertEach(Built(SparseMatrix(this.rows, this.cols)),
                               Triples(this.rowList, 1), 1)
             second == AddPass(first, Triples(other.rowList, 1), 1)
         IN  IF second.err THEN Thrown(second.what) ELSE second

\* [err, what, m]: whether this.add(other) threw, the message, and the matrix
\* it returned
add(this, other) ==
    IF this.rows # other.rows \/ this.cols # other.cols
    THEN Thrown("Matrix dimensions do not match for addition")
    ELSE LET first == InsertEach(Built(SparseMatrix(this.rows, this.cols)),
                               Triples(this.rowList, 1), 1)
             second == AddPass(first, Triples(other.rowList, 1), 1)
         IN  IF second.err THEN Thrown(second.what) ELSE second

(***************************************************************************)
(* subtract                                                                *)
(***************************************************************************)
\* the step with the operands of the difference exchanged
SubtractStepReversed(m, t) ==
    LET g == get(m, t.row, t.col) IN
    IF g.err THEN [err |-> TRUE, what |-> g.what, m |-> m]
    ELSE insert(m, t.row, t.col, t.value - g.value)

\* one step of the second loop of subtract:
\* currentValue = result.get(row, col); result.insert(row, col, currentValue - value)
SubtractStep(m, t) ==
    LET g == get(m, t.row, t.col) IN
    IF g.err THEN [err |-> TRUE, what |-> g.what, m |-> m]
    ELSE insert(m, t.row, t.col, g.value - t.value)

RECURSIVE SubtractPass(_, _, _)
SubtractPass(acc, ts, i) ==
    IF acc.err \/ i > Len(ts) THEN acc
    ELSE SubtractPass(SubtractStep(acc.m, ts[i]), ts, i + 1)

subtract(this, other) ==
    IF this.rows # other.rows \/ this.cols # other.cols
    THEN Thrown("Matrix dimensions do not match for subtraction")
    ELSE LET first == InsertEach(Built(SparseMatrix(this.rows, this.cols)),
                                 Triples(this.rowList, 1), 1)
             second == SubtractPass(first, Triples(other.rowList, 1), 1)
         IN  IF second.err THEN Thrown(second.what) ELSE second

(***************************************************************************)
(* Products and quotients of values: the exact result rounded to the       *)
(* nearest quantum, as a double rounds to the nearest double.              *)
(***************************************************************************)
RoundDiv(n, d) ==
    LET q == (2 * Abs(n) + Abs(d)) \div (2 * Abs(d))
    IN  IF (n < 0) # (d < 0) THEN -q ELSE q

Mul(a, b) == RoundDiv(a * b, One)

Div(a, b) == RoundDiv(a * One, b)

(***************************************************************************)
(* scalarMultiply, scalarDivide                                            *)
(***************************************************************************)
\* the loop inserting value in place of newValue
RECURSIVE ScalePassUnscaled(_, _, _, _)
ScalePassUnscaled(acc, ts, scalar, i) ==
    IF acc.err \/ i > Len(ts) THEN acc
    ELSE LET newValue == Mul(ts[i].value, scalar) IN
         ScalePassUnscaled(IF Abs(newValue) >= Eps
                   THEN insert(acc.m, ts[i].row, ts[i].col, ts[i].value)
                   ELSE acc,
                   ts, scalar, i + 1)

\* the loop of scalarMultiply: newValue = value * scalar, inserted only when
\* |newValue| >= 1e-10
RECURSIVE ScalePass(_, _, _, _)
ScalePass(acc, ts, scalar, i) ==
    IF acc.err \/ i > Len(ts) THEN acc
    ELSE LET newValue == Mul(ts[i].value, scalar) IN
         ScalePass(IF Abs(newValue) >= Eps
                   THEN insert(acc.m, ts[i].row, ts[i].col, newValue)
                   ELSE acc,
                   ts, scalar, i + 1)

scalarMultiply(this, scalar) ==
    IF Abs(scalar) < Eps
    THEN Built(SparseMatrix(this.rows, this.cols))
    ELSE LET res == ScalePass(Built(SparseMatrix(this.rows, this.cols)),
                              Triples(this.rowList, 1), scalar, 1)
         IN  IF res.err THEN Thrown(res.what) ELSE res

\* scalarDivide refusing the scalar 0.0 only
scalarDivideZeroTest(this, scalar) ==
    IF scalar = 0
    THEN Thrown("Division by zero")
    ELSE scalarMultiply(this, Div(One, scalar))

scalarDivide(this, scalar) ==
    IF Abs(scalar) < Eps
    THEN Thrown("Division by zero")
    ELSE scalarMultiply(this, Div(One, scalar))

(***************************************************************************)
(* multiply                                                                *)
(***************************************************************************)
\* the innermost loop with sum = val1 * val2 in place of sum += val1 * val2
RECURSIVE RowSumLastTerm(_, _, _, _, _)
RowSumLastTerm(acc, elems, other, j, n) ==
    IF acc.err \/ n > Len(elems) THEN acc
    ELSE LET val1 == elems[n].value
             g == get(other, elems[n].col, j)
         IN  IF g.err THEN [err |-> TRUE, what |-> g.what, sum |-> acc.sum]
             ELSE RowSumLastTerm([acc EXCEPT !.sum = IF Abs(g.value) >= Eps
                                             THEN Mul(val1, g.value)
                                             ELSE acc.sum],
                         elems, other, j, n + 1)

\* the innermost loop reading other.get(j, k) in place of other.get(k, j)
RECURSIVE RowSumSwappedIndex(_, _, _, _, _)
RowSumSwappedIndex(acc, elems, other, j, n) ==
    IF acc.err \/ n > Len(elems) THEN acc
    ELSE LET val1 == elems[n].value
             g == get(other, j, elems[n].col)
         IN  IF g.err THEN [err |-> TRUE, what |-> g.what, sum |-> acc.sum]
             ELSE RowSumSwappedIndex([acc EXCEPT !.sum = IF Abs(g.value) >= Eps
                                             THEN acc.sum + Mul(val1, g.value)
                                             ELSE acc.sum],
                         elems, other, j, n + 1)

\* the innermost loop of multiply over the elements of one row of this:
\* [err, what, sum] with sum += val1 * val2 when |val2| >= 1e-10
RECURSIVE RowSum(_, _, _, _, _)
RowSum(acc, elems, other, j, n) ==
    IF acc.err \/ n > Len(elems) THEN acc
    ELSE LET val1 == elems[n].value
             g == get(other, elems[n].col, j)
         IN  IF g.err THEN [err |-> TRUE, what |-> g.what, sum |-> acc.sum]
             ELSE RowSum([acc EXCEPT !.sum = IF Abs(g.value) >= Eps
                                             THEN acc.sum + Mul(val1, g.value)
                                             ELSE acc.sum],
                         elems, other, j, n + 1)

\* the loop "for (int j = 0; j < other.cols; j++)" for the row node rowNode
RECURSIVE MultiplyRow(_, _, _, _)
MultiplyRow(acc, rowNode, other, j) ==
    IF acc.err \/ j >= other.cols THEN acc
    ELSE LET s == RowSum([err |-> FALSE, what |-> "", sum |-> 0],
                         rowNode.elements, other, j, 1)
         IN  MultiplyRow(IF s.err THEN [err |-> TRUE, what |-> s.what, m |-> acc.m]
                         ELSE IF Abs(s.sum) >= Eps
                         THEN insert(acc.m, rowNode.row, j, s.sum)
                         ELSE acc,
                         rowNode, other, j + 1)

\* the loop over the row nodes of this
RECURSIVE MultiplyRows(_, _, _, _)
MultiplyRows(acc, list, other, i) ==
    IF acc.err \/ i > Len(list) THEN acc
    ELSE MultiplyRows(MultiplyRow(acc, list[i], other, 0), list, other, i + 1)

multiply(this, other) ==
    IF this.cols # other.rows
    THEN Thrown("Matrix dimensions do not match for multiplication")
    ELSE LET res == MultiplyRows(Built(SparseMatrix(this.rows, other.cols)),
                                 this.rowList, other, 1)
         IN  IF res.err THEN Thrown(res.what) ELSE res

(***************************************************************************)
(* transpose                                                               *)
(***************************************************************************)
\* the elements of this in chain order, row and column left as they are
RECURSIVE SwappedNot(_, _)
SwappedNot(ts, i) ==
    IF i > Len(ts) THEN <<>>
    ELSE <<[row |-> ts[i].row, col |-> ts[i].col, value |-> ts[i].value]>>
         \o SwappedNot(ts, i + 1)

\* the elements of this in chain order with row and column exchanged
RECURSIVE Swapped(_, _)
Swapped(ts, i) ==
    IF i > Len(ts) THEN <<>>
    ELSE <<[row |-> ts[i].col, col |-> ts[i].row, value |-> ts[i].value]>>
         \o Swapped(ts, i + 1)

\* transpose building its result with the dimensions of this
transposeSameDims(this) ==
    LET res == InsertEach(Built(SparseMatrix(this.rows, this.cols)),
                          Swapped(Triples(this.rowList, 1), 1), 1)
    IN  IF res.err THEN Thrown(res.what) ELSE res

transpose(this) ==
    LET res == InsertEach(Built(SparseMatrix(this.cols, this.rows)),
                          Swapped(Triples(this.rowList, 1), 1), 1)
    IN  IF res.err THEN Thrown(res.what) ELSE res

(***************************************************************************)
(* determinant                                                             *)
(***************************************************************************)
\* determinant adding the middle term of the expansion of order 3
determinantPlusMiddle(this) ==
    IF this.rows # this.cols
    THEN [err |-> TRUE, what |-> "Matrix must be square to calculate determinant",
          value |-> 0]
    ELSE IF this.rows = 1
    THEN get(this, 0, 0)
    ELSE IF this.rows = 2
    THEN [err |-> FALSE, what |-> "",
          value |-> Mul(get(this, 0, 0).value, get(this, 1, 1).value)
                    - Mul(get(this, 0, 1).value, get(this, 1, 0).value)]
    ELSE IF this.rows = 3
    THEN LET a == get(this, 0, 0).value
             b == get(this, 0, 1).value
             c == get(this, 0, 2).value
             d == get(this, 1, 0).value
             e == get(this, 1, 1).value
             f == get(this, 1, 2).value
             g == get(this, 2, 0).value
             h == get(this, 2, 1).value
             i == get(this, 2, 2).value
         IN  [err |-> FALSE, what |-> "",
              value |-> Mul(a, Mul(e, i) - Mul(f, h))
                        + Mul(b, Mul(d, i) - Mul(f, g))
                        + Mul(c, Mul(d, h) - Mul(e, g))]
    ELSE [err |-> TRUE,
          what |-> "Determinant calculation for matrices larger than 3x3 not implemented",
          value |-> 0]

\* determinant expanding the leading 3 x 3 cells of every order above 2
determinantLeadingCells(this) ==
    IF this.rows # this.cols
    THEN [err |-> TRUE, what |-> "Matrix must be square to calculate determinant",
          value |-> 0]
    ELSE IF this.rows = 1
    THEN get(this, 0, 0)
    ELSE IF this.rows = 2
    THEN [err |-> FALSE, what |-> "",
          value |-> Mul(get(this, 0, 0).value, get(this, 1, 1).value)
                    - Mul(get(this, 0, 1).value, get(this, 1, 0).value)]
    ELSE IF this.rows >= 3
    THEN LET a == get(this, 0, 0).value
             b == get(this, 0, 1).value
             c == get(this, 0, 2).value
             d == get(this, 1, 0).value
             e == get(this, 1, 1).value
             f == get(this, 1, 2).value
             g == get(this, 2, 0).value
             h == get(this, 2, 1).value
             i == get(this, 2, 2).value
         IN  [err |-> FALSE, what |-> "",
              value |-> Mul(a, Mul(e, i) - Mul(f, h))
                        - Mul(b, Mul(d, i) - Mul(f, g))
                        + Mul(c, Mul(d, h) - Mul(e, g))]
    ELSE [err |-> TRUE,
          what |-> "Determinant calculation for matrices larger than 3x3 not implemented",
          value |-> 0]

\* [err, what, value]
determinant(this) ==
    IF this.rows # this.cols
    THEN [err |-> TRUE, what |-> "Matrix must be square to calculate determinant",
          value |-> 0]
    ELSE IF this.rows = 1
    THEN get(this, 0, 0)
    ELSE IF this.rows = 2
    THEN [err |-> FALSE, what |-> "",
          value |-> Mul(get(this, 0, 0).value, get(this, 1, 1).value)
                    - Mul(get(this, 0, 1).value, get(this, 1, 0).value)]
    ELSE IF this.rows = 3
    THEN LET a == get(this, 0, 0).value
             b == get(this, 0, 1).value
             c == get(this, 0, 2).value
             d == get(this, 1, 0).value
             e == get(this, 1, 1).value
             f == get(this, 1, 2).value
             g == get(this, 2, 0).value
             h == get(this, 2, 1).value
             i == get(this, 2, 2).value
         IN  [err |-> FALSE, what |-> "",
              value |-> Mul(a, Mul(e, i) - Mul(f, h))
                        - Mul(b, Mul(d, i) - Mul(f, g))
                        + Mul(c, Mul(d, h) - Mul(e, g))]
    ELSE [err |-> TRUE,
          what |-> "Determinant calculation for matrices larger than 3x3 not implemented",
          value |-> 0]

(***************************************************************************)
(* inverse                                                                 *)
(***************************************************************************)
Triple(r, c, v) == [row |-> r, col |-> c, value |-> v]

\* the cells inverse inserts into its result, in the order of its insert calls
InverseCells(this, det) ==
    IF this.rows = 1
    THEN <<Triple(0, 0, Div(One, get(this, 0, 0).value))>>
    ELSE IF this.rows = 2
    THEN <<Triple(0, 0, Div(get(this, 1, 1).value, det)),
           Triple(0, 1, Div(-get(this, 0, 1).value, det)),
           Triple(1, 0, Div(-get(this, 1, 0).value, det)),
           Triple(1, 1, Div(get(this, 0, 0).value, det))>>
    ELSE LET a == get(this, 0, 0).value
             b == get(this, 0, 1).value
             c == get(this, 0, 2).value
             d == get(this, 1, 0).value
             e == get(this, 1, 1).value
             f == get(this, 1, 2).value
             g == get(this, 2, 0).value
             h == get(this, 2, 1).value
             i == get(this, 2, 2).value
             cA == Mul(e, i) - Mul(f, h)
             cB == -(Mul(d, i) - Mul(f, g))
             cC == Mul(d, h) - Mul(e, g)
             cD == -(Mul(b, i) - Mul(c, h))
             cE == Mul(a, i) - Mul(c, g)
             cF == -(Mul(a, h) - Mul(b, g))
             cG == Mul(b, f) - Mul(c, e)
             cH == -(Mul(a, f) - Mul(c, d))
             cI == Mul(a, e) - Mul(b, d)
         IN  <<Triple(0, 0, Div(cA, det)), Triple(0, 1, Div(cD, det)),
               Triple(0, 2, Div(cG, det)), Triple(1, 0, Div(cB, det)),
               Triple(1, 1, Div(cE, det)), Triple(1, 2, Div(cH, det)),
               Triple(2, 0, Div(cC, det)), Triple(2, 1, Div(cF, det)),
               Triple(2, 2, Div(cI, det))>>

\* inverse inserting each quotient at the mirror cell
inverseMirrored(this) ==
    IF this.rows # this.cols
    THEN Thrown("Matrix must be square to calculate inverse")
    ELSE LET det == determinant(this) IN
         IF det.err THEN Thrown(det.what)
         ELSE IF Abs(det.value) < Eps
         THEN Thrown("Matrix is singular, inverse does not exist")
         ELSE IF this.rows \notin {1, 2, 3}
         THEN Thrown("Inverse calculation for matrices larger than 3x3 not implemented")
         ELSE LET res == InsertEach(Built(SparseMatrix(this.rows, this.cols)),
                                    Swapped(InverseCells(this, det.value), 1), 1)
              IN  IF res.err THEN Thrown(res.what) ELSE res

\* inverse refusing the determinant 0.0 only
inverseZeroTest(this) ==
    IF this.rows # this.cols
    THEN Thrown("Matrix must be square to calculate inverse")
    ELSE LET det == determinant(this) IN
         IF det.err THEN Thrown(det.what)
         ELSE IF det.value = 0
         THEN Thrown("Matrix is singular, inverse does not exist")
         ELSE IF this.rows \notin {1, 2, 3}
         THEN Thrown("Inverse calculation for matrices larger than 3x3 not implemented")
         ELSE LET res == InsertEach(Built(SparseMatrix(this.rows, this.cols)),
                                    InverseCells(this, det.value), 1)
              IN  IF res.err THEN Thrown(res.what) ELSE res

inverse(this) ==
    IF this.rows # this.cols
    THEN Thrown("Matrix must be square to calculate inverse")
    ELSE LET det == determinant(this) IN
         IF det.err THEN Thrown(det.what)
         ELSE IF Abs(det.value) < Eps
         THEN Thrown("Matrix is singular, inverse does not exist")
         ELSE IF this.rows \notin {1, 2, 3}
         THEN Thrown("Inverse calculation for matrices larger than 3x3 not implemented")
         ELSE LET res == InsertEach(Built(SparseMatrix(this.rows, this.cols)),
                                    InverseCells(this, det.value), 1)
              IN  IF res.err THEN Thrown(res.what) ELSE res

(***************************************************************************)
(* Copy constructor and operator=.  A copied node carries fresh = TRUE     *)
(* when it is allocated by the copy (new RowNode, new MatrixNode) and      *)
(* FALSE when it is a node of the matrix copied from.                      *)
(***************************************************************************)
\* the inner loop: one new MatrixNode for every element, linked at the tail
RECURSIVE CopyElements(_, _)
CopyElements(elems, j) ==
    IF j > Len(elems) THEN <<>>
    ELSE <<[col |-> elems[j].col, value |-> elems[j].value, fresh |-> TRUE]>>
         \o CopyElements(elems, j + 1)

\* the rows of other taken over as they are, nodes and all
RECURSIVE CopyRowsShared(_, _)
CopyRowsShared(list, i) ==
    IF i > Len(list) THEN <<>>
    ELSE <<[row |-> list[i].row,
            elements |-> [j \in 1..Len(list[i].elements) |->
                            [col |-> list[i].elements[j].col,
                             value |-> list[i].elements[j].value,
                             fresh |-> FALSE]],
            fresh |-> FALSE]>>
         \o CopyRowsShared(list, i + 1)

\* the outer loop: one new RowNode for every row of other, linked at the tail
RECURSIVE CopyRows(_, _)
CopyRows(list, i) ==
    IF i > Len(list) THEN <<>>
    ELSE <<[row |-> list[i].row,
            elements |-> CopyElements(list[i].elements, 1),
            fresh |-> TRUE]>>
         \o CopyRows(list, i + 1)

\* the row list a copy holds, and the number of its nodes that are nodes of
\* the matrix copied from
Plain(copied) ==
    [i \in 1..Len(copied) |->
        [row |-> copied[i].row,
         elements |-> [j \in 1..Len(copied[i].elements) |->
                         MatrixNode(copied[i].elements[j].col,
                                    copied[i].elements[j].value)]]]

RECURSIVE SharedNodes(_, _)
SharedNodes(copied, i) ==
    IF i > Len(copied) THEN 0
    ELSE (IF copied[i].fresh THEN 0 ELSE 1)
         + Cardinality({j \in 1..Len(copied[i].elements) : ~copied[i].elements[j].fresh})
         + SharedNodes(copied, i + 1)

\* SparseMatrix(const SparseMatrix& other): [m, shared]
copy(other) ==
    LET copied == CopyRows(other.rowList, 1) IN
    [m |-> [rows |-> other.rows, cols |-> other.cols, rowList |-> Plain(copied)],
     shared |-> SharedNodes(copied, 1)]

\* this = other, same telling whether this and other are one object; the
\* rows this held before are deleted
assign(this, other, same) ==
    IF same THEN [m |-> this, shared |-> 0]
    ELSE LET copied == CopyRows(other.rowList, 1) IN
         [m |-> [rows |-> other.rows, cols |-> other.cols, rowList |-> Plain(copied)],
          shared |-> SharedNodes(copied, 1)]

(***************************************************************************)
(* readMatrix                                                              *)
(***************************************************************************)
\* the two for loops of readMatrix, k = i * cols + j; f[<<i, j>>] is the
\* number typed for cell (i, j), inserted only when |value| >= 1e-10
RECURSIVE ReadCells(_, _, _)
ReadCells(m, f, k) ==
    IF k >= m.rows * m.cols THEN m
    ELSE LET i == k \div m.cols
             j == k % m.cols
         IN  ReadCells(IF Abs(f[<<i, j>>]) >= Eps
                       THEN insert(m, i, j, f[<<i, j>>]).m
                       ELSE m,
                       f, k + 1)

readMatrix(r, c, f) == ReadCells(SparseMatrix(r, c), f, 0)

Cells(r, c) == (0..(r - 1)) \X (0..(c - 1))

\* the matrices readMatrix returns for the dimensions d
ReadMatrices(d) == {readMatrix(d[1], d[2], f) : f \in [Cells(d[1], d[2]) -> OperandVals]}

\* a matrix read with every cell filled, one for each of the dimensions
FullMatrix(d) == readMatrix(d[1], d[2], [x \in Cells(d[1], d[2]) |-> Eps + 1])

\* the operands handed to a binary operation, by the dimensions of the
\* receiver: every read matrix of the same dimensions, and a full matrix of
\* each of the other dimensions
OperandTable ==
    [d \in Dims |-> ReadMatrices(d) \cup {FullMatrix(e) : e \in Dims \ {d}}]

Operands(r, c) == OperandTable[<<r, c>>]

\* the cell values typed into readMatrix for the matrices of more than
\* MaxCells cells
PlainVals == {0, Eps + 1}

\* the operands handed to multiply, by the dimensions of the receiver: every
\* read matrix with as many rows as the receiver has columns, and a full
\* matrix of each of the other dimensions
MultiplyOperandTable ==
    [d \in Dims |->
        UNION {ReadMatrices(e) : e \in {x \in Dims : x[1] = d[2]}}
        \cup {FullMatrix(e) : e \in {x \in Dims : x[1] # d[2]}}]

MultiplyOperands(r, c) == MultiplyOperandTable[<<r, c>>]

\* whole cell values typed into readMatrix for matrices of order 3
WholeVals == {0, One}

\* large cell values typed into readMatrix for matrices of order 3
LargeVals == {0, 4 * One}

\* the cell values typed into readMatrix for the third factor of a product
\* of three matrices
ChainVals == {0, 2 * One}

\* the most columns of a third factor
MaxChainCols == 2

\* the matrices read from ChainVals that have n rows
ChainOperands(n) ==
    UNION {{readMatrix(e[1], e[2], f) : f \in [Cells(e[1], e[2]) -> ChainVals]} :
              e \in {x \in Dims : x[1] = n /\ x[2] <= MaxChainCols}}

\* the values inserted right after a copy: one that removes, one that stores
CopyVals == {0, Eps}

\* the matrices an assignment overwrites
AssignTargets == {SparseMatrix(1, 1), FullMatrix(<<2, 2>>)}

\* the scalars handed to scalarMultiply and scalarDivide: zero, a nonzero
\* scalar below the threshold, and scalars whose reciprocal is above, at and
\* below the threshold
Scalars == {0, Eps - 1, -Eps, 2 * One, One * One}

\* the matrices of more than MaxCells cells: they are read whole by
\* readMatrix; scalarDivide, transpose, determinant, inverse, the copy
\* constructor and operator= are applied to them
BigMatrices ==
    {readMatrix(3, 3, f) : f \in [Cells(3, 3) -> PlainVals]}
    \cup {readMatrix(3, 3, f) : f \in [Cells(3, 3) -> WholeVals]}
    \cup {readMatrix(3, 3, f) : f \in [Cells(3, 3) -> LargeVals]}
    \cup {FullMatrix(<<4, 4>>), SparseMatrix(4, 4), FullMatrix(<<5, 5>>)}

(***************************************************************************)
(* runTests, Test 1: m1 = [[1,2],[3,4]], m2 = [[5,6],[7,8]], m1.add(m2)    *)
(***************************************************************************)
TestM1 ==
    LET a == insert(SparseMatrix(2, 2), 0, 0, 1 * One).m
        b == insert(a, 0, 1, 2 * One).m
        c == insert(b, 1, 0, 3 * One).m
    IN  insert(c, 1, 1, 4 * One).m

TestM2 ==
    LET a == insert(SparseMatrix(2, 2), 0, 0, 5 * One).m
        b == insert(a, 0, 1, 6 * One).m
        c == insert(b, 1, 0, 7 * One).m
    IN  insert(c, 1, 1, 8 * One).m

(***************************************************************************)
(* The state machine: one SparseMatrix object (rows, cols, rowList) and    *)
(* the record of the last call made.                                       *)
(***************************************************************************)
This == [rows |-> rows, cols |-> cols, rowList |-> rowList]

\* the record of a call: the operation and its arguments, the outcome res
\* (whether it threw, and the message), the value or matrix it returned, the
\* receiver before the call and the other operand
Call(op, r, c, v, res, value, before, other, result) ==
    [op |-> op, r |-> r, c |-> c, v |-> v, err |-> res.err, what |-> res.what,
     value |-> value, before |-> before, other |-> other, result |-> result]

\* no call outstanding: the caller is between two calls
Idle == Call("idle", 0, 0, 0, Built(NoMatrix), 0, NoMatrix, NoMatrix, NoMatrix)

\* the matrix is built by the insert calls of the model
Small == <<rows, cols>> \in Dims

Init ==
    /\ \/ /\ \E d \in Dims : rows = d[1] /\ cols = d[2]
          /\ rowList = <<>>
       \/ \E m \in BigMatrices :
             rows = m.rows /\ cols = m.cols /\ rowList = m.rowList
    /\ last = Idle
    /\ matrices = <<>>
    /\ choice = -1

Insert(r, c, v) ==
    /\ last = Idle /\ Small
    /\ \E res \in {insert(This, r, c, v)} :
          /\ rowList' = res.m.rowList
          /\ last' = Call("insert", r, c, v, res, 0, This, NoMatrix, NoMatrix)
          /\ UNCHANGED <<rows, cols, matrices, choice>>

Get(r, c) ==
    /\ last = Idle /\ Small
    /\ \E res \in {get(This, r, c)} :
          /\ last' = Call("get", r, c, 0, res, res.value, This, NoMatrix, NoMatrix)
          /\ UNCHANGED <<rows, cols, rowList, matrices, choice>>

\* add keeping its sums in the receiver
AddInPlace ==
    /\ last = Idle /\ Small
    /\ \E other \in Operands(rows, cols) :
          LET res == add(This, other) IN
          /\ last' = Call("add", 0, 0, 0, res, 0, This, other, res.m)
          /\ rowList' = IF res.err THEN rowList ELSE res.m.rowList
    /\ UNCHANGED <<rows, cols, matrices, choice>>

Add ==
    /\ last = Idle /\ Small
    /\ \E other \in Operands(rows, cols) :
         \E res \in {add(This, other)} :
            last' = Call("add", 0, 0, 0, res, 0, This, other, res.m)
    /\ UNCHANGED <<rows, cols, rowList, matrices, choice>>

Subtract ==
    /\ last = Idle /\ Small
    /\ \E other \in Operands(rows, cols) :
         \E res \in {subtract(This, other)} :
            last' = Call("subtract", 0, 0, 0, res, 0, This, other, res.m)
    /\ UNCHANGED <<rows, cols, rowList, matrices, choice>>

ScalarMultiply(scalar) ==
    /\ last = Idle /\ Small
    /\ \E res \in {scalarMultiply(This, scalar)} :
          /\ last' = Call("scalarMultiply", 0, 0, scalar, res, 0, This, NoMatrix, res.m)
          /\ UNCHANGED <<rows, cols, rowList, matrices, choice>>

ScalarDivide(scalar) ==
    /\ last = Idle
    /\ \E res \in {scalarDivide(This, scalar)} :
          /\ last' = Call("scalarDivide", 0, 0, scalar, res, 0, This, NoMatrix, res.m)
          /\ UNCHANGED <<rows, cols, rowList, matrices, choice>>

Multiply ==
    /\ last = Idle /\ Small
    /\ \E other \in MultiplyOperands(rows, cols) :
         \E res \in {multiply(This, other)} :
            last' = Call("multiply", 0, 0, 0, res, 0, This, other, res.m)
    /\ UNCHANGED <<rows, cols, rowList, matrices, choice>>

Transpose ==
    /\ last = Idle
    /\ \E res \in {transpose(This)} :
          /\ last' = Call("transpose", 0, 0, 0, res, 0, This, NoMatrix, res.m)
          /\ UNCHANGED <<rows, cols, rowList, matrices, choice>>

Determinant ==
    /\ last = Idle
    /\ \E res \in {determinant(This)} :
          /\ last' = Call("determinant", 0, 0, 0, res, res.value, This, NoMatrix, NoMatrix)
          /\ UNCHANGED <<rows, cols, rowList, matrices, choice>>

\* value: the count returned
CountNonZero ==
    /\ last = Idle /\ Small
    /\ last' = Call("countNonZero", 0, 0, 0, Built(NoMatrix), countNonZero(This),
                     This, NoMatrix, NoMatrix)
    /\ UNCHANGED <<rows, cols, rowList, matrices, choice>>

\* what: the notice printed, if any; value: the number of grid lines printed
Display ==
    /\ last = Idle /\ Small
    /\ \E out \in {display(This)} :
          /\ last' = Call("display", 0, 0, 0, [err |-> FALSE, what |-> out.what],
                           Len(out.grid), This, NoMatrix, NoMatrix)
          /\ UNCHANGED <<rows, cols, rowList, matrices, choice>>

\* r: the number of element lines printed; value: the total printed last
DisplaySparse ==
    /\ last = Idle /\ Small
    /\ \E out \in {displaySparse(This)} :
          /\ last' = Call("displaySparse", Len(out.lines), 0, 0, Built(NoMatrix),
                           out.nonZeroCount, This, NoMatrix, NoMatrix)
          /\ UNCHANGED <<rows, cols, rowList, matrices, choice>>

Inverse ==
    /\ last = Idle
    /\ \E res \in {inverse(This)} :
          /\ last' = Call("inverse", 0, 0, 0, res, 0, This, NoMatrix, res.m)
          /\ UNCHANGED <<rows, cols, rowList, matrices, choice>>

\* SparseMatrix b(a) with a the receiver: value is the number of nodes that b
\* shares with a, and result is b
CopyConstruct ==
    /\ last = Idle
    /\ \E res \in {copy(This)} :
          /\ last' = Call("copy", 0, 0, 0, Built(res.m), res.shared, This, NoMatrix, res.m)
          /\ UNCHANGED <<rows, cols, rowList, matrices, choice>>

\* b = a with a the receiver and b one of the matrices of AssignTargets
Assign ==
    /\ last = Idle
    /\ \E b \in AssignTargets :
          \E res \in {assign(b, This, FALSE)} :
             last' = Call("assign", 0, 0, 0, Built(res.m), res.shared, This, NoMatrix, res.m)
    /\ UNCHANGED <<rows, cols, rowList, matrices, choice>>

\* a = a
SelfAssign ==
    /\ last = Idle
    /\ \E res \in {assign(This, This, TRUE)} :
          /\ rowList' = res.m.rowList
          /\ last' = Call("selfAssign", 0, 0, 0, Built(res.m), res.shared, This, This, res.m)
          /\ UNCHANGED <<rows, cols, matrices, choice>>

\* an insert made right after a copy, into the original (the receiver) or
\* into the copy (last.result).  The record keeps the matrix that was not
\* inserted into: before the call in before, after it in result; other is the
\* matrix inserted into, after the call.  Nodes that the two share are nodes
\* of both, so what is linked to them shows in both.
InsertAfterCopy(into, r, c, v) ==
    /\ last.op \in {"copy", "assign"} /\ Small
    /\ \E res \in {insert(IF into = "original" THEN This ELSE last.result, r, c, v)} :
        LET original == This
            copied == last.result
            aliased == last.value > 0
        IN
        /\ rowList' = IF into = "original" \/ aliased THEN res.m.rowList ELSE rowList
        /\ last' = IF into = "original"
                   THEN Call("insertOriginal", r, c, v, res, last.value, copied, res.m,
                             IF aliased THEN res.m ELSE copied)
                   ELSE Call("insertCopy", r, c, v, res, last.value, original, res.m,
                             IF aliased THEN res.m ELSE original)
        /\ UNCHANGED <<rows, cols, matrices, choice>>


RunTests ==
    /\ last = Idle
    /\ \E res \in {add(TestM1, TestM2)} :
          /\ last' = Call("runTests", 0, 0, 0, res, 0, TestM1, TestM2, res.m)
          /\ UNCHANGED <<rows, cols, rowList, matrices, choice>>

\* runTests, Test 2: m1.subtract(m2)
RunTest2 ==
    /\ last = Idle
    /\ \E res \in {subtract(TestM1, TestM2)} :
          /\ last' = Call("runTest2", 0, 0, 0, res, 0, TestM1, TestM2, res.m)
          /\ UNCHANGED <<rows, cols, rowList, matrices, choice>>

\* runTests, Test 4: m1.multiply(m2)
RunTest4 ==
    /\ last = Idle
    /\ \E res \in {multiply(TestM1, TestM2)} :
          /\ last' = Call("runTest4", 0, 0, 0, res, 0, TestM1, TestM2, res.m)
          /\ UNCHANGED <<rows, cols, rowList, matrices, choice>>

\* runTests, Test 5: m1.transpose()
RunTest5 ==
    /\ last = Idle
    /\ \E res \in {transpose(TestM1)} :
          /\ last' = Call("runTest5", 0, 0, 0, res, 0, TestM1, NoMatrix, res.m)
          /\ UNCHANGED <<rows, cols, rowList, matrices, choice>>

\* runTests, Test 6: m1.determinant()
RunTest6 ==
    /\ last = Idle
    /\ \E res \in {determinant(TestM1)} :
          /\ last' = Call("runTest6", 0, 0, 0, res, res.value, TestM1, NoMatrix, NoMatrix)
          /\ UNCHANGED <<rows, cols, rowList, matrices, choice>>

\* runTests, Test 7: mInv = m1.inverse(); mVerify = m1.multiply(mInv)
RunTest7 ==
    /\ last = Idle
    /\ \E mInv \in {inverse(TestM1)} :
          \E mVerify \in {IF mInv.err THEN mInv ELSE multiply(TestM1, mInv.m)} :
             last' = Call("runTest7", 0, 0, 0, mVerify, 0, TestM1, mInv.m, mVerify.m)
    /\ UNCHANGED <<rows, cols, rowList, matrices, choice>>

\* the caller has taken the outcome of the call (the try block of the menu
\* loop ends, or its catch has reported the error) and goes on to its next call
Continue ==
    /\ last # Idle
    /\ last' = Idle
    /\ UNCHANGED <<rows, cols, rowList, matrices, choice>>

Next ==
    \/ \E r \in -1..rows, c \in -1..cols, v \in Vals : Insert(r, c, v)
    \/ \E r \in -1..rows, c \in -1..cols : Get(r, c)
    \/ Add
    \/ Subtract
    \/ \E scalar \in Scalars : ScalarMultiply(scalar)
    \/ \E scalar \in Scalars : ScalarDivide(scalar)
    \/ Multiply
    \/ Transpose
    \/ Determinant
    \/ Inverse
    \/ CountNonZero
    \/ Display
    \/ DisplaySparse
    \/ CopyConstruct
    \/ Assign
    \/ SelfAssign
    \/ \E into \in {"original", "copy"}, r \in 0..(rows - 1), c \in 0..(cols - 1),
          v \in CopyVals : InsertAfterCopy(into, r, c, v)
    \/ RunTests
    \/ RunTest2
    \/ RunTest4
    \/ RunTest5
    \/ RunTest6
    \/ RunTest7
    \/ Continue

Spec == Init /\ [][Next]_vars

(***************************************************************************)
(* main: the menu loop.  matrices is the std::vector of the matrices       *)
(* created and derived so far and choice the number read last; last        *)
(* records the choice just handled (r, c: the indices or the dimensions    *)
(* typed; v: the scalar typed; what: the line printed, or e.what() when    *)
(* the catch block reported an exception; result: the matrix computed).    *)
(* The numbers typed are read as numbers.                                  *)
(***************************************************************************)
\* the largest number of matrices the list is let grow to
MaxMatrices == 3

\* the dimensions, cell values and scalars typed at the prompts
MenuDims == {<<0, 1>>, <<1, 1>>, <<1, 2>>}
MenuVals == {0, One}
MenuScalars == {0, 2 * One}

\* readMatrix with the test of the dimensions typed
readMatrixTyped(r, c, f) ==
    IF r <= 0 \/ c <= 0
    THEN Thrown("Dimensions must be positive")
    ELSE Built(readMatrix(r, c, f))

\* a line printed by the menu, no exception caught
Printed(what) == [err |-> FALSE, what |-> what]

\* what the catch block reports for an operation that threw, the line
\* printed after push_back otherwise
Reported(res, line) == IF res.err THEN [err |-> TRUE, what |-> res.what] ELSE Printed(line)

\* push_back putting the new matrix in front of the others
push_front(list, m) == <<copy(m).m>> \o list

\* matrices.push_back(m): m is copy-constructed at the end; a vector that
\* grows copy-constructs the matrices it holds into its new storage
push_back(list, m) ==
    [i \in 1..Len(list) |-> copy(list[i]).m] \o <<copy(m).m>>

ValidIndex(idx) == idx >= 0 /\ idx < Len(matrices)

Room == Len(matrices) < MaxMatrices

AtPrompt == last = Idle /\ choice # 0

\* case 1: matrices.push_back(readMatrix())
MenuCreate ==
    /\ AtPrompt /\ Room
    /\ \E d \in MenuDims : \E f \in [Cells(d[1], d[2]) -> MenuVals] :
          LET res == readMatrixTyped(d[1], d[2], f) IN
          /\ matrices' = IF res.err THEN matrices ELSE push_back(matrices, res.m)
          /\ last' = Call("menu", d[1], d[2], 0,
                           Reported(res, "Matrix created successfully."),
                           0, NoMatrix, NoMatrix, res.m)
    /\ choice' = 1
    /\ UNCHANGED <<rows, cols, rowList>>

\* cases 2, 3 and 5: add, subtract, multiply of two matrices of the list
Binary(ch, a, b) ==
    CASE ch = 2 -> add(a, b)
      [] ch = 3 -> subtract(a, b)
      [] OTHER  -> multiply(a, b)

MenuBinary(ch, idx1, idx2) ==
    /\ AtPrompt /\ Room
    /\ choice' = ch
    /\ IF Len(matrices) < 2
       THEN /\ matrices' = matrices
            /\ last' = Call("menu", 0, 0, 0,
                   Printed("You need at least two matrices. Create more matrices."),
                   0, NoMatrix, NoMatrix, NoMatrix)
       ELSE IF ~ValidIndex(idx1) \/ ~ValidIndex(idx2)
       THEN /\ matrices' = matrices
            /\ last' = Call("menu", idx1, idx2, 0, Printed("Invalid matrix indices."),
                            0, NoMatrix, NoMatrix, NoMatrix)
       ELSE LET res == Binary(ch, matrices[idx1 + 1], matrices[idx2 + 1]) IN
            /\ matrices' = IF res.err THEN matrices ELSE push_back(matrices, res.m)
            /\ last' = Call("menu", idx1, idx2, 0,
                            Reported(res, "Result stored as matrix"), 0,
                            matrices[idx1 + 1], matrices[idx2 + 1], res.m)
    /\ UNCHANGED <<rows, cols, rowList>>

\* cases 4 and 6: scalarMultiply, scalarDivide of a matrix of the list
ByScalar(ch, a, scalar) ==
    IF ch = 4 THEN scalarMultiply(a, scalar) ELSE scalarDivide(a, scalar)

MenuScalar(ch, idx, scalar) ==
    /\ AtPrompt /\ Room
    /\ choice' = ch
    /\ IF matrices = <<>>
       THEN /\ matrices' = matrices
            /\ last' = Call("menu", 0, 0, 0,
                   Printed("No matrices available. Create a matrix first."),
                   0, NoMatrix, NoMatrix, NoMatrix)
       ELSE IF ~ValidIndex(idx)
       THEN /\ matrices' = matrices
            /\ last' = Call("menu", idx, 0, scalar, Printed("Invalid matrix index."),
                            0, NoMatrix, NoMatrix, NoMatrix)
       ELSE LET res == ByScalar(ch, matrices[idx + 1], scalar) IN
            /\ matrices' = IF res.err THEN matrices ELSE push_back(matrices, res.m)
            /\ last' = Call("menu", idx, 0, scalar,
                            Reported(res, "Result stored as matrix"), 0,
                            matrices[idx + 1], NoMatrix, res.m)
    /\ UNCHANGED <<rows, cols, rowList>>

\* cases 7 and 9: transpose, inverse of a matrix of the list
Unary(ch, a) == IF ch = 7 THEN transpose(a) ELSE inverse(a)

MenuUnary(ch, idx) ==
    /\ AtPrompt /\ Room
    /\ choice' = ch
    /\ IF matrices = <<>>
       THEN /\ matrices' = matrices
            /\ last' = Call("menu", 0, 0, 0,
                   Printed("No matrices available. Create a matrix first."),
                   0, NoMatrix, NoMatrix, NoMatrix)
       ELSE IF ~ValidIndex(idx)
       THEN /\ matrices' = matrices
            /\ last' = Call("menu", idx, 0, 0, Printed("Invalid matrix index."),
                            0, NoMatrix, NoMatrix, NoMatrix)
       ELSE LET res == Unary(ch, matrices[idx + 1]) IN
            /\ matrices' = IF res.err THEN matrices ELSE push_back(matrices, res.m)
            /\ last' = Call("menu", idx, 0, 0,
                            Reported(res, "Result stored as matrix"), 0,
                            matrices[idx + 1], NoMatrix, res.m)
    /\ UNCHANGED <<rows, cols, rowList>>

\* cases 8, 10 and 11: determinant, display, displaySparse of a matrix of the
\* list; value: the determinant, the grid lines or the total printed
Viewed(ch, a) ==
    CASE ch = 8  -> determinant(a)
      [] ch = 10 -> [err |-> FALSE, what |-> display(a).what,
                     value |-> Len(display(a).grid)]
      [] OTHER   -> [err |-> FALSE, what |-> "",
                     value |-> displaySparse(a).nonZeroCount]

MenuView(ch, idx) ==
    /\ AtPrompt
    /\ choice' = ch
    /\ IF matrices = <<>>
       THEN last' = Call("menu", 0, 0, 0,
                   Printed("No matrices available. Create a matrix first."),
                   0, NoMatrix, NoMatrix, NoMatrix)
       ELSE IF ~ValidIndex(idx)
       THEN last' = Call("menu", idx, 0, 0, Printed("Invalid matrix index."),
                         0, NoMatrix, NoMatrix, NoMatrix)
       ELSE LET res == Viewed(ch, matrices[idx + 1]) IN
            last' = Call("menu", idx, 0, 0, res, res.value,
                         matrices[idx + 1], NoMatrix, NoMatrix)
    /\ UNCHANGED <<rows, cols, rowList, matrices>>

\* case 12: runTests works on matrices of its own
MenuRunTests ==
    /\ AtPrompt
    /\ choice' = 12
    /\ last' = Call("menu", 0, 0, 0, Printed(""), 0, NoMatrix, NoMatrix, NoMatrix)
    /\ UNCHANGED <<rows, cols, rowList, matrices>>

\* case 0: the loop ends
MenuExit ==
    /\ AtPrompt
    /\ choice' = 0
    /\ last' = Call("menu", 0, 0, 0, Printed("Exiting program."), 0,
                    NoMatrix, NoMatrix, NoMatrix)
    /\ UNCHANGED <<rows, cols, rowList, matrices>>

\* default: any other number
MenuDefault(ch) ==
    /\ AtPrompt
    /\ choice' = ch
    /\ last' = Call("menu", 0, 0, 0, Printed("Invalid choice. Please try again."),
                    0, NoMatrix, NoMatrix, NoMatrix)
    /\ UNCHANGED <<rows, cols, rowList, matrices>>

\* while (choice != 0): the try block is left and the menu is shown again
MenuPrompt ==
    /\ last # Idle /\ choice # 0
    /\ last' = Idle
    /\ UNCHANGED <<rows, cols, rowList, matrices, choice>>

\* main constructs no matrix outside the list
MenuInit ==
    /\ rows = 0 /\ cols = 0 /\ rowList = <<>>
    /\ last = Idle
    /\ matrices = <<>>
    /\ choice = -1

MenuNext ==
    \/ MenuCreate
    \/ \E ch \in {2, 3, 5}, idx1 \in -1..MaxMatrices, idx2 \in -1..MaxMatrices :
          MenuBinary(ch, idx1, idx2)
    \/ \E ch \in {4, 6}, idx \in -1..MaxMatrices, scalar \in MenuScalars :
          MenuScalar(ch, idx, scalar)
    \/ \E ch \in {7, 9}, idx \in -1..MaxMatrices : MenuUnary(ch, idx)
    \/ \E ch \in {8, 10, 11}, idx \in -1..MaxMatrices : MenuView(ch, idx)
    \/ MenuRunTests
    \/ MenuExit
    \/ \E ch \in {-1, 13} : MenuDefault(ch)
    \/ MenuPrompt

MenuSpec == MenuInit /\ [][MenuNext]_vars

(***************************************************************************)
(* Vocabulary of the properties: what a matrix holds, told by looking at   *)
(* every row and element of its chains and not by the ordered scans.       *)
(***************************************************************************)
InRange(m, r, c) == r >= 0 /\ r < m.rows /\ c >= 0 /\ c < m.cols

\* the positions <<i, j>> of the elements stored for cell (r, c)
Positions(m, r, c) ==
    {p \in UNION {{<<i, j>> : j \in 1..Len(m.rowList[i].elements)} :
                      i \in 1..Len(m.rowList)} :
        /\ m.rowList[p[1]].row = r
        /\ m.rowList[p[1]].elements[p[2]].col = c}

Stored(m, r, c) == Positions(m, r, c) # {}

\* the mathematical content of cell (r, c): the stored value, 0 when none
CellValue(m, r, c) ==
    IF Stored(m, r, c)
    THEN LET p == CHOOSE q \in Positions(m, r, c) : TRUE
         IN  m.rowList[p[1]].elements[p[2]].value
    ELSE 0

RowIndices(m) == {m.rowList[i].row : i \in 1..Len(m.rowList)}

NoEmptyRow(m) == \A i \in 1..Len(m.rowList) : m.rowList[i].elements # <<>>

\* a value as it is kept: suppressed to 0 below the threshold
Suppress(v) == IF Abs(v) >= Eps THEN v ELSE 0

IsInsert == last.op = "insert"

(***************************************************************************)
(* C1. Right after insert(r, c, v) with (r, c) in range, get(r, c) returns *)
(* v when |v| >= eps; when |v| < eps it returns 0, no element is stored at *)
(* (r, c), and countNonZero does not count the cell.                       *)
(***************************************************************************)
C1_InsertThenGet ==
    (IsInsert /\ InRange(This, last.r, last.c)) =>
        /\ ~last.err
        /\ get(This, last.r, last.c) = [err |-> FALSE, what |-> "", value |-> Suppress(last.v)]
        /\ Stored(This, last.r, last.c) <=> (Abs(last.v) >= Eps)
        /\ Abs(last.v) < Eps =>
             countNonZero(This) = countNonZero(last.before)
                 - (IF Stored(last.before, last.r, last.c) THEN 1 ELSE 0)

\* an element is removed from the middle of a row that keeps others
C1_Witness ==
    /\ IsInsert /\ InRange(This, last.r, last.c)
    /\ Abs(last.v) < Eps /\ last.v # 0
    /\ Stored(last.before, last.r, last.c)
    /\ last.c > 0 /\ Stored(This, last.r, 0)

(***************************************************************************)
(* C2. In every state reached by inserts and removals in any order of row  *)
(* and column indices, and in every matrix returned by add, subtract,      *)
(* scalarMultiply, scalarDivide, multiply, transpose and inverse, the      *)
(* stored rows are strictly ascending by row index and the elements of     *)
(* each row strictly ascending by column, none repeated.                   *)
(***************************************************************************)
RowsAscending(m) ==
    \A i \in 1..(Len(m.rowList) - 1) : m.rowList[i].row < m.rowList[i + 1].row

ColsAscending(m) ==
    \A i \in 1..Len(m.rowList) :
        \A j \in 1..(Len(m.rowList[i].elements) - 1) :
            m.rowList[i].elements[j].col < m.rowList[i].elements[j + 1].col

Ordered(m) == RowsAscending(m) /\ ColsAscending(m)

C2_Ordered == Ordered(This) /\ Ordered(last.result)

\* a row is linked between two rows stored before it
C2_Witness ==
    /\ IsInsert /\ ~last.err /\ Abs(last.v) >= Eps
    /\ last.r \notin RowIndices(last.before)
    /\ \E a, b \in RowIndices(last.before) : a < last.r /\ last.r < b
    /\ Stored(This, last.r, last.c)

(***************************************************************************)
(* C3. Zero suppression: in every reachable state of a matrix, built by    *)
(* insert or returned by add, subtract, scalarMultiply, scalarDivide,      *)
(* multiply, transpose or inverse, every stored element has |value| >= eps.*)
(***************************************************************************)
NothingBelowEps(m) ==
    \A i \in 1..Len(m.rowList) :
        \A j \in 1..Len(m.rowList[i].elements) :
            \/ m.rowList[i].elements[j].value >= Eps
            \/ m.rowList[i].elements[j].value <= -Eps

C3_ZeroSuppression == NothingBelowEps(This) /\ NothingBelowEps(last.result)

\* a difference that is not zero but below the threshold is not stored,
\* in a result that stores other cells
C3_Witness ==
    /\ last.op = "subtract" /\ ~last.err
    /\ countNonZero(last.result) > 0
    /\ \E x \in Cells(rows, cols) :
          LET d == CellValue(last.before, x[1], x[2]) - CellValue(last.other, x[1], x[2])
          IN  d # 0 /\ Abs(d) < Eps /\ ~Stored(last.result, x[1], x[2])

(***************************************************************************)
(* C4. After any sequence of insert calls, returning normally or failing,  *)
(* every row held in the row list has at least one element.                *)
(***************************************************************************)
C4_NoEmptyRow == NoEmptyRow(This)

(***************************************************************************)
(* C5. insert(r, c, v) fails with an index error whenever r is outside     *)
(* [0, rows) or c is outside [0, cols), for every value v.                 *)
(***************************************************************************)
C5_InsertOutOfRangeFails ==
    (IsInsert /\ ~InRange(last.before, last.r, last.c)) => last.err

(***************************************************************************)
(* C6. An insert call that fails leaves the matrix exactly as it was: the  *)
(* same stored rows and the same stored elements.                          *)
(***************************************************************************)
C6_FailedInsertChangesNothing ==
    (IsInsert /\ last.err) => This = last.before

(***************************************************************************)
(* C7. get(r, c) fails exactly when (r, c) is out of range; in range it    *)
(* returns the stored value when an element exists at (r, c) and 0 when    *)
(* the row is absent or has no element at column c; it never changes the   *)
(* matrix.                                                                 *)
(***************************************************************************)
C7_Get ==
    last.op = "get" =>
        /\ last.err <=> ~InRange(last.before, last.r, last.c)
        /\ ~last.err => last.value = CellValue(last.before, last.r, last.c)
        /\ This = last.before

\* an element is read past an earlier row and an earlier element of its row
C7_Witness ==
    /\ last.op = "get" /\ ~last.err /\ last.value # 0
    /\ last.r > 0 /\ last.c > 0
    /\ Stored(This, 0, 0) /\ Stored(This, last.r, 0)

IsAdd == last.op \in {"add", "runTests"}

SameDims(a, b) == a.rows = b.rows /\ a.cols = b.cols

C9_Add ==
    /\ (IsAdd /\ SameDims(last.before, last.other)) =>
        /\ ~last.err
        /\ SameDims(last.result, last.before)
        /\ \A x \in Cells(last.before.rows, last.before.cols) :
             LET sum == CellValue(last.before, x[1], x[2]) + CellValue(last.other, x[1], x[2])
             IN  /\ get(last.result, x[1], x[2]) = [err |-> FALSE, what |-> "", value |-> Suppress(sum)]
                 /\ Stored(last.result, x[1], x[2]) <=> (Abs(sum) >= Eps)
        /\ NoEmptyRow(last.result)
    /\ last.op = "runTests" =>
        /\ get(last.result, 0, 0).value = 6 * One
        /\ get(last.result, 0, 1).value = 8 * One
        /\ get(last.result, 1, 0).value = 10 * One
        /\ get(last.result, 1, 1).value = 12 * One

\* one row of A cancels against B and is removed, another cell sums below
\* eps without cancelling, and another sums to a stored value
C9_Witness ==
    /\ last.op = "add" /\ ~last.err
    /\ \E r \in RowIndices(last.before) : r \notin RowIndices(last.result)
    /\ \E x \in Cells(rows, cols) :
          LET sum == CellValue(last.before, x[1], x[2]) + CellValue(last.other, x[1], x[2])
          IN  sum # 0 /\ Abs(sum) < Eps
    /\ \E x \in Cells(rows, cols) :
          /\ Stored(last.before, x[1], x[2]) /\ Stored(last.other, x[1], x[2])
          /\ Stored(last.result, x[1], x[2])

(***************************************************************************)
(* C10. add is commutative: add(A, B) and add(B, A) read the same in every *)
(* cell and hold the same stored rows and elements.                        *)
(***************************************************************************)
C10_AddCommutes ==
    (IsAdd /\ ~last.err) =>
        LET swapped == add(last.other, last.before) IN
        /\ ~swapped.err
        /\ \A x \in Cells(last.before.rows, last.before.cols) :
               get(swapped.m, x[1], x[2]) = get(last.result, x[1], x[2])
        /\ swapped.m = last.result

\* both operands hold elements, in different cells and in shared ones
C10_Witness ==
    /\ last.op = "add" /\ ~last.err
    /\ last.before.rowList # last.other.rowList
    /\ \E x \in Cells(rows, cols) :
          Stored(last.before, x[1], x[2]) /\ Stored(last.other, x[1], x[2])
    /\ \E x \in Cells(rows, cols) :
          Stored(last.before, x[1], x[2]) /\ ~Stored(last.other, x[1], x[2])
    /\ \E x \in Cells(rows, cols) :
          ~Stored(last.before, x[1], x[2]) /\ Stored(last.other, x[1], x[2])

(***************************************************************************)
(* C11. For matrices A and B of the same dimensions, subtract(A, B)        *)
(* succeeds and every in-range cell of the result reads exactly            *)
(* get_A - get_B.                                                          *)
(***************************************************************************)
IsSubtract == last.op \in {"subtract", "runTest2"}

C11_SubtractExact ==
    (IsSubtract /\ SameDims(last.before, last.other)) =>
        /\ ~last.err
        /\ \A x \in Cells(last.before.rows, last.before.cols) :
               get(last.result, x[1], x[2]).value
                   = CellValue(last.before, x[1], x[2]) - CellValue(last.other, x[1], x[2])

\* C11, amended: subtract(A, B) succeeds, has the dimensions of A, and every
\* in-range cell reads get_A - get_B when that difference is at least eps in
\* magnitude, and reads 0 with no stored element when it is not.
\* Example: [[1,2],[3,4]] - [[5,6],[7,8]] = [[-4,-4],[-4,-4]].
C11_Subtract ==
    /\ (IsSubtract /\ SameDims(last.before, last.other)) =>
        /\ ~last.err
        /\ SameDims(last.result, last.before)
        /\ \A x \in Cells(last.before.rows, last.before.cols) :
             LET diff == CellValue(last.before, x[1], x[2]) - CellValue(last.other, x[1], x[2])
             IN  /\ get(last.result, x[1], x[2]) = [err |-> FALSE, what |-> "", value |-> Suppress(diff)]
                 /\ Stored(last.result, x[1], x[2]) <=> (Abs(diff) >= Eps)
    /\ last.op = "runTest2" =>
        \A x \in Cells(2, 2) : get(last.result, x[1], x[2]).value = -4 * One

\* one cell differs by less than eps without being equal, one cell stored in
\* both operands keeps a stored difference, and one cell is stored in B alone
C11_Witness ==
    /\ last.op = "subtract" /\ ~last.err
    /\ \E x \in Cells(rows, cols) :
          LET diff == CellValue(last.before, x[1], x[2]) - CellValue(last.other, x[1], x[2])
          IN  diff # 0 /\ Abs(diff) < Eps /\ ~Stored(last.result, x[1], x[2])
    /\ \E x \in Cells(rows, cols) :
          /\ Stored(last.before, x[1], x[2]) /\ Stored(last.other, x[1], x[2])
          /\ Stored(last.result, x[1], x[2])
    /\ \E x \in Cells(rows, cols) :
          /\ ~Stored(last.before, x[1], x[2]) /\ Stored(last.other, x[1], x[2])
          /\ CellValue(last.result, x[1], x[2]) = - CellValue(last.other, x[1], x[2])

(***************************************************************************)
(* C12. add and subtract throw the dimension-mismatch error whenever the   *)
(* row counts or the column counts of the operands differ, and multiply    *)
(* throws it whenever the column count of A differs from the row count of  *)
(* B; the call then returns no matrix and leaves the receiver as it was.   *)
(***************************************************************************)
Mismatch ==
    [add |-> "Matrix dimensions do not match for addition",
     subtract |-> "Matrix dimensions do not match for subtraction",
     multiply |-> "Matrix dimensions do not match for multiplication"]

\* the call recorded in last threw the dimension-mismatch error of op
FailedWithMismatch(op) ==
    /\ last.err
    /\ last.what = Mismatch[op]
    /\ ExceptionClass(last.what) = "invalid_argument"
    /\ last.result = NoMatrix
    /\ This = last.before

C12_DimensionMismatch ==
    /\ (last.op \in {"add", "subtract"} /\ ~SameDims(last.before, last.other)) =>
           FailedWithMismatch(last.op)
    /\ (last.op = "multiply" /\ last.before.cols # last.other.rows) =>
           FailedWithMismatch(last.op)

\* add with operands of equal row counts and different column counts, both
\* holding elements
C12_Witness ==
    /\ last.op = "add" /\ last.err
    /\ last.before.rows = last.other.rows /\ last.before.cols # last.other.cols
    /\ rowList # <<>> /\ last.other.rowList # <<>>

(***************************************************************************)
(* C13. For A of m x n and B of n x p, multiply(A, B) succeeds (no get on  *)
(* B is out of range) and is an m x p matrix whose cell (i,j) reads the    *)
(* sum over k of get_A(i,k) * get_B(k,j) when that sum is at least eps in  *)
(* magnitude, and reads 0 with no stored element when it is not; the       *)
(* result stores no row that A does not store.                             *)
(* Example: [[1,2],[3,4]] x [[5,6],[7,8]] = [[19,22],[43,50]].             *)
(***************************************************************************)
IsMultiply == last.op \in {"multiply", "runTest4"}

\* the sum over k' in 0..k of get_A(i,k') * get_B(k',j)
RECURSIVE Dot(_, _, _, _, _)
Dot(a, b, i, j, k) ==
    IF k < 0 THEN 0
    ELSE Dot(a, b, i, j, k - 1) + Mul(CellValue(a, i, k), CellValue(b, k, j))

C13_Multiply ==
    /\ (IsMultiply /\ last.before.cols = last.other.rows) =>
        /\ ~last.err
        /\ last.result.rows = last.before.rows
        /\ last.result.cols = last.other.cols
        /\ \A x \in Cells(last.before.rows, last.other.cols) :
             LET sum == Dot(last.before, last.other, x[1], x[2], last.before.cols - 1)
             IN  /\ get(last.result, x[1], x[2]) = [err |-> FALSE, what |-> "", value |-> Suppress(sum)]
                 /\ Stored(last.result, x[1], x[2]) <=> (Abs(sum) >= Eps)
        /\ RowIndices(last.result) \subseteq RowIndices(last.before)
        /\ NoEmptyRow(last.result)
    /\ last.op = "runTest4" =>
        /\ get(last.result, 0, 0).value = 19 * One
        /\ get(last.result, 0, 1).value = 22 * One
        /\ get(last.result, 1, 0).value = 43 * One
        /\ get(last.result, 1, 1).value = 50 * One

\* A stores one of its rows only; one cell of the product sums two nonzero
\* terms to a stored value, another sums to a nonzero value below eps and is
\* not stored
C13_Witness ==
    /\ last.op = "multiply" /\ ~last.err
    /\ \E r \in 0..(rows - 1) : r \notin RowIndices(last.before)
    /\ \E x \in Cells(rows, last.other.cols) :
          /\ \E k1, k2 \in 0..(cols - 1) :
                /\ k1 # k2
                /\ Stored(last.before, x[1], k1) /\ Stored(last.other, k1, x[2])
                /\ Stored(last.before, x[1], k2) /\ Stored(last.other, k2, x[2])
          /\ Stored(last.result, x[1], x[2])
    /\ \E x \in Cells(rows, last.other.cols) :
          LET sum == Dot(last.before, last.other, x[1], x[2], cols - 1)
          IN  sum # 0 /\ Abs(sum) < Eps /\ ~Stored(last.result, x[1], x[2])

(***************************************************************************)
(* C14. multiply is associative: for A, B, C with A.cols = B.rows and      *)
(* B.cols = C.rows, multiply(multiply(A, B), C) and                        *)
(* multiply(A, multiply(B, C)) succeed, have the same dimensions and read  *)
(* the same value in every cell to within eps.  Stated for the factors     *)
(* whose products the value type computes exactly, so that no difference   *)
(* comes from rounding.                                                    *)
(***************************************************************************)
\* every product get_a(i,k) * get_b(k,j) is computed without rounding
Exact(a, b) ==
    \A i \in 0..(a.rows - 1), k \in 0..(a.cols - 1), j \in 0..(b.cols - 1) :
        (CellValue(a, i, k) * CellValue(b, k, j)) % One = 0

\* no cell of the product of a and b is a nonzero sum below eps
NoneSuppressed(a, b) ==
    \A x \in Cells(a.rows, b.cols) :
        LET sum == Dot(a, b, x[1], x[2], a.cols - 1)
        IN  sum = 0 \/ Abs(sum) >= Eps

\* with A, B and AB taken from the multiply call recorded in last:
\* left = (AB)C, bc = BC, right = A(BC)
Chain(c) ==
    LET bc == multiply(last.other, c)
    IN  [left |-> multiply(last.result, c), bc |-> bc,
         right |-> multiply(last.before, bc.m)]

ExactChain(c, ch) ==
    /\ Exact(last.before, last.other) /\ Exact(last.result, c)
    /\ Exact(last.other, c) /\ Exact(last.before, ch.bc.m)

C14_Associative ==
    (last.op = "multiply" /\ ~last.err) =>
        \A c \in ChainOperands(last.other.cols) :
            LET ch == Chain(c) IN
            ExactChain(c, ch) =>
                /\ ~ch.left.err /\ ~ch.right.err
                /\ SameDims(ch.left.m, ch.right.m)
                /\ \A x \in Cells(last.before.rows, c.cols) :
                       Abs(CellValue(ch.left.m, x[1], x[2])
                           - CellValue(ch.right.m, x[1], x[2])) < Eps

\* C14, amended: both products of three succeed and have dimensions
\* A.rows x C.cols; they hold the same stored cells and values whenever no
\* product is rounded and neither AB nor BC has a cell whose sum is nonzero
\* and below eps (such a cell is replaced by 0 before the second
\* multiplication, and the two results can then differ by any amount).
C14_AssociativeUnlessSuppressed ==
    (last.op = "multiply" /\ ~last.err) =>
        \A c \in ChainOperands(last.other.cols) :
            LET ch == Chain(c) IN
            /\ ~ch.left.err /\ ~ch.right.err
            /\ SameDims(ch.left.m, ch.right.m)
            /\ ch.left.m.rows = last.before.rows /\ ch.left.m.cols = c.cols
            /\ (/\ ExactChain(c, ch)
                /\ NoneSuppressed(last.before, last.other)
                /\ NoneSuppressed(last.other, c)) =>
                   /\ \A x \in Cells(last.before.rows, c.cols) :
                          get(ch.left.m, x[1], x[2]) = get(ch.right.m, x[1], x[2])
                   /\ ch.left.m = ch.right.m

\* three factors, none of them 1 x 1, multiplied without rounding and without
\* a suppressed cell into a product that stores an element
C14_Witness ==
    /\ last.op = "multiply" /\ ~last.err
    /\ cols > 1 /\ last.other.cols > 1
    /\ \E c \in ChainOperands(last.other.cols) :
          LET ch == Chain(c) IN
          /\ ExactChain(c, ch)
          /\ NoneSuppressed(last.before, last.other)
          /\ NoneSuppressed(last.other, c)
          /\ ch.left.m.rowList # <<>>
          /\ ch.left.m = ch.right.m

(***************************************************************************)
(* C15. transpose is an involution: transpose(transpose(M)) succeeds, has  *)
(* the dimensions of M and holds exactly the stored cells and values of M, *)
(* in the same stored order.                                               *)
(***************************************************************************)
IsTranspose == last.op \in {"transpose", "runTest5"}

C15_TransposeInvolution ==
    IsTranspose =>
        /\ ~last.err
        /\ LET back == transpose(last.result) IN
            /\ ~back.err
            /\ SameDims(back.m, last.before)
            /\ Triples(back.m.rowList, 1) = Triples(last.before.rowList, 1)
            /\ NoEmptyRow(last.before) => back.m = last.before

\* M is not square, stores elements in two rows, and keeps a row without
\* elements between them
C15_Witness ==
    /\ last.op = "transpose" /\ ~last.err
    /\ rows # cols
    /\ ~NoEmptyRow(last.before)
    /\ \E r1, r2 \in 0..(rows - 1) :
          /\ r1 # r2
          /\ \E c \in 0..(cols - 1) : Stored(last.before, r1, c)
          /\ \E c \in 0..(cols - 1) : Stored(last.before, r2, c)

(***************************************************************************)
(* C16. For M of m x n, transpose(M) succeeds (its inserts stay in range), *)
(* has dimensions n x m, reads at (c,r) what M reads at (r,c) for every    *)
(* in-range (r,c), and has the countNonZero of M.                          *)
(* Example: transpose([[1,2],[3,4]]) = [[1,3],[2,4]].                      *)
(***************************************************************************)
C16_Transpose ==
    /\ IsTranspose =>
        /\ ~last.err
        /\ last.result.rows = last.before.cols
        /\ last.result.cols = last.before.rows
        /\ \A x \in Cells(last.before.rows, last.before.cols) :
               /\ get(last.result, x[2], x[1]) = get(last.before, x[1], x[2])
               /\ ~get(last.result, x[2], x[1]).err
        /\ countNonZero(last.result) = countNonZero(last.before)
    /\ last.op = "runTest5" =>
        /\ get(last.result, 0, 0).value = 1 * One
        /\ get(last.result, 0, 1).value = 3 * One
        /\ get(last.result, 1, 0).value = 2 * One
        /\ get(last.result, 1, 1).value = 4 * One

\* M is square and stores a cell off the diagonal whose mirror cell it does
\* not store, and a second element in the same row
C16_Witness ==
    /\ last.op = "transpose" /\ ~last.err
    /\ rows = cols
    /\ \E x \in Cells(rows, cols) :
          /\ x[1] # x[2]
          /\ Stored(last.before, x[1], x[2]) /\ ~Stored(last.before, x[2], x[1])
          /\ Stored(last.before, x[1], x[1])
          /\ Stored(last.result, x[2], x[1]) /\ ~Stored(last.result, x[1], x[2])

(***************************************************************************)
(* C17. scalarMultiply(M, k) succeeds and returns a matrix of the          *)
(* dimensions of M: without stored rows when |k| < eps, and otherwise with *)
(* every cell (r,c) reading get_M(r,c) * k when that product is at least   *)
(* eps in magnitude, and reading 0 with no stored element when it is not.  *)
(***************************************************************************)
C17_ScalarMultiply ==
    last.op = "scalarMultiply" =>
        /\ ~last.err
        /\ SameDims(last.result, last.before)
        /\ Abs(last.v) < Eps => last.result.rowList = <<>>
        /\ Abs(last.v) >= Eps =>
             \A x \in Cells(last.before.rows, last.before.cols) :
                LET newValue == Mul(CellValue(last.before, x[1], x[2]), last.v)
                IN  /\ get(last.result, x[1], x[2])
                          = [err |-> FALSE, what |-> "", value |-> Suppress(newValue)]
                    /\ Stored(last.result, x[1], x[2]) <=> (Abs(newValue) >= Eps)

\* a scalar of magnitude eps or more, applied to elements of two rows whose
\* products are nonzero and below eps: the result stores nothing
C17_Witness ==
    /\ last.op = "scalarMultiply" /\ ~last.err
    /\ Abs(last.v) >= Eps
    /\ \E x, y \in Cells(rows, cols) :
          /\ x[1] # y[1]
          /\ Stored(last.before, x[1], x[2]) /\ Stored(last.before, y[1], y[2])
          /\ Mul(CellValue(last.before, x[1], x[2]), last.v) # 0
          /\ ~Stored(last.result, x[1], x[2])
    /\ last.result.rowList = <<>>

(***************************************************************************)
(* C18. scalarDivide(M, k) throws the division-by-zero error, a            *)
(* std::invalid_argument, and returns no matrix whenever |k| < eps; for    *)
(* every other k it succeeds and returns exactly the matrix                *)
(* scalarMultiply(M, 1/k) returns.                                         *)
(***************************************************************************)
C18_ScalarDivide ==
    last.op = "scalarDivide" =>
        /\ Abs(last.v) < Eps =>
              /\ last.err
              /\ last.what = "Division by zero"
              /\ ExceptionClass(last.what) = "invalid_argument"
              /\ last.result = NoMatrix
        /\ Abs(last.v) >= Eps =>
              /\ ~last.err
              /\ ~scalarMultiply(last.before, Div(One, last.v)).err
              /\ last.result = scalarMultiply(last.before, Div(One, last.v)).m
              /\ \A x \in Cells(last.before.rows, last.before.cols) :
                     get(last.result, x[1], x[2]).value
                       = IF Abs(Div(One, last.v)) < Eps THEN 0
                         ELSE Suppress(Mul(CellValue(last.before, x[1], x[2]),
                                           Div(One, last.v)))

\* a divisor of magnitude eps or more whose quotients are stored
C18_Witness ==
    /\ last.op = "scalarDivide" /\ ~last.err
    /\ Abs(last.v) >= Eps
    /\ last.before.rowList # <<>>
    /\ countNonZero(last.result) = countNonZero(last.before)
    /\ last.result # last.before

(***************************************************************************)
(* C19. For a square matrix of order 1, 2 or 3, determinant succeeds and   *)
(* returns get(0,0), a*d - b*c, and the first-row cofactor expansion       *)
(* a(ei - fh) - b(di - fg) + c(dh - eg), the letters being the cells in    *)
(* row-major order with absent cells read as 0; for a matrix of whole      *)
(* numbers, whose products are exact, this is the determinant of the dense *)
(* matrix as the signed sum over permutations.                             *)
(* Example: determinant([[1,2],[3,4]]) = -2.                               *)
(***************************************************************************)
IsDeterminant == last.op \in {"determinant", "runTest6"}

\* the cell (r,c) of the receiver of the call recorded in last
At(r, c) == CellValue(last.before, r, c)

Whole(m) == \A x \in Cells(m.rows, m.cols) : CellValue(m, x[1], x[2]) % One = 0

\* the signed sum over the permutations of order 3, in quanta cubed
Leibniz3 ==
    At(0, 0) * At(1, 1) * At(2, 2) + At(0, 1) * At(1, 2) * At(2, 0)
    + At(0, 2) * At(1, 0) * At(2, 1) - At(0, 2) * At(1, 1) * At(2, 0)
    - At(0, 1) * At(1, 0) * At(2, 2) - At(0, 0) * At(1, 2) * At(2, 1)

UnsupportedSize ==
    {"Determinant calculation for matrices larger than 3x3 not implemented",
     "Inverse calculation for matrices larger than 3x3 not implemented"}

C20_UnsupportedSize ==
    (last.op \in {"determinant", "inverse"}
        /\ last.before.rows = last.before.cols /\ last.before.rows >= 4) =>
        /\ last.err
        /\ last.what \in UnsupportedSize
        /\ ExceptionClass(last.what) = "invalid_argument"
        /\ last.value = 0 /\ last.result = NoMatrix

\* inverse of a matrix of order 4 that stores elements
C20_Witness ==
    /\ last.op = "inverse" /\ last.err
    /\ rows = 4 /\ cols = 4 /\ rowList # <<>>

(***************************************************************************)
(* C21. For a square matrix of order 1, 2 or 3, inverse throws the         *)
(* singular-matrix error and returns no matrix when the determinant is     *)
(* below eps in magnitude, and otherwise succeeds and returns a matrix of  *)
(* the same dimensions.                                                    *)
(***************************************************************************)
IsInverse == last.op = "inverse"

SquareUpTo3(m) == m.rows = m.cols /\ m.rows <= 3

Quotient(m, r, c) ==
    LET ts == InverseCells(m, determinant(m).value)
        n == CHOOSE k \in 1..Len(ts) : ts[k].row = r /\ ts[k].col = c
    IN  ts[n].value

\* the sum over k' in 0..k of get_m(i,k') * Quotient(k',j), in quanta squared
RECURSIVE QuotientDot(_, _, _, _)
QuotientDot(m, i, j, k) ==
    IF k < 0 THEN 0
    ELSE QuotientDot(m, i, j, k - 1) + CellValue(m, i, k) * Quotient(m, k, j)

\* the quotients are the cells of the inverse of m, without rounding
ExactQuotients(m) ==
    \A x \in Cells(m.rows, m.cols) :
        QuotientDot(m, x[1], x[2], m.cols - 1)
            = (IF x[1] = x[2] THEN One * One ELSE 0)

\* no quotient is nonzero and below eps
NoQuotientSuppressed(m) ==
    \A x \in Cells(m.rows, m.cols) :
        Quotient(m, x[1], x[2]) = 0 \/ Abs(Quotient(m, x[1], x[2])) >= Eps

Identity(n) == readMatrix(n, n, [x \in Cells(n, n) |-> IF x[1] = x[2] THEN One ELSE 0])

\* M and inverse(M), from the inverse call or from Test 7 of runTests
InverseOf == IF last.op = "runTest7" THEN last.other ELSE last.result

Inverted ==
    /\ last.op \in {"inverse", "runTest7"} /\ ~last.err
    /\ last.before.rows \in {2, 3}
    /\ ExactQuotients(last.before)
    /\ Exact(last.before, InverseOf)

SameCells(a, b) ==
    /\ SameDims(a, b)
    /\ \A x \in Cells(a.rows, a.cols) : get(a, x[1], x[2]) = get(b, x[1], x[2])
    /\ countNonZero(a) = countNonZero(b)

C23_DeepCopy ==
    /\ last.op \in {"copy", "assign"} =>
          /\ ~last.err
          /\ SameCells(last.result, last.before)
          /\ Triples(last.result.rowList, 1) = Triples(last.before.rowList, 1)
          /\ last.value = 0
          /\ This = last.before
    /\ last.op \in {"insertOriginal", "insertCopy"} =>
          /\ SameCells(last.result, last.before)
          /\ last.result = last.before
    /\ last.op = "insertCopy" => This = last.before
    /\ last.op = "selfAssign" => (This = last.before /\ last.result = last.before)

\* an insert into the copy of a matrix of two rows, storing a new element in
\* a row the original stores too; the original keeps its cells
C23_Witness ==
    /\ last.op = "insertCopy" /\ ~last.err
    /\ countNonZero(last.before) >= 2
    /\ Len(last.before.rowList) >= 2
    /\ ~Stored(last.before, last.r, last.c)
    /\ last.r \in RowIndices(last.before)
    /\ Stored(last.other, last.r, last.c)
    /\ This = last.before

(***************************************************************************)
(* C24. add, subtract, scalarMultiply, scalarDivide, multiply, transpose,  *)
(* determinant and inverse leave the dimensions, rows and elements of the  *)
(* receiver as they were, whether the call succeeds or throws, and also    *)
(* when the other operand is the receiver itself; the matrix returned is   *)
(* built apart from the operands.                                          *)
(***************************************************************************)
ConstOperations ==
    {"add", "subtract", "scalarMultiply", "scalarDivide", "multiply",
     "transpose", "determinant", "inverse"}

StoredPositions(m) ==
    UNION {{<<i, j>> : j \in 1..Len(m.rowList[i].elements)} :
              i \in 1..Len(m.rowList)}

NonZeroCells(m) ==
    {x \in Cells(m.rows, m.cols) : get(m, x[1], x[2]).value # 0}

CountsAgree(m) ==
    LET n == countNonZero(m) IN
    /\ n = Cardinality(StoredPositions(m))
    /\ n = Cardinality(NonZeroCells(m))
    /\ n = Len(displaySparse(m).lines)
    /\ n = displaySparse(m).nonZeroCount

C25_CountNonZero ==
    /\ CountsAgree(This)
    /\ last.op = "countNonZero" =>
          last.value = Cardinality(StoredPositions(last.before))
    /\ last.op = "displaySparse" =>
          /\ last.r = countNonZero(last.before)
          /\ last.value = last.r

\* the count of a matrix that holds elements in two rows and a row without
\* elements
C25_Witness ==
    /\ last.op = "countNonZero"
    /\ last.value >= 2
    /\ Len(rowList) >= 2
    /\ ~NoEmptyRow(This)

(***************************************************************************)
(* C26. display() prints the single "all zeros" notice instead of the grid *)
(* exactly when the matrix has no stored element (countNonZero() = 0),     *)
(* and the rows x cols grid otherwise.                                     *)
(***************************************************************************)
C26_DisplayNotice ==
    last.op = "display" =>
        /\ (last.what = AllZerosNotice) <=> (countNonZero(last.before) = 0)
        /\ last.what # AllZerosNotice => last.value = last.before.rows

(***************************************************************************)
(* C27. The list of matrices kept by the menu loop is append-only: a       *)
(* successful create or derive choice (add, subtract, scalar multiply,     *)
(* multiply, scalar divide, transpose, inverse) appends exactly one        *)
(* matrix, a choice whose operation raises an error or names an invalid    *)
(* index appends none and the loop goes on to the next prompt, and no menu *)
(* choice changes or removes a matrix already in the list.                 *)
(***************************************************************************)
Deriving == {2, 3, 4, 5, 6, 7, 9}

\* the choice ch, handled as rec records, named for each index it reads a
\* matrix of list
NamedValid(list, ch, rec) ==
    /\ ch \in {2, 3, 5} => /\ Len(list) >= 2
                            /\ rec.r \in 0..(Len(list) - 1)
                            /\ rec.c \in 0..(Len(list) - 1)
    /\ ch \in {4, 6, 7, 9} => rec.r \in 0..(Len(list) - 1)

\* the matrix the choice ch derives from list
Derived(list, ch, rec) ==
    CASE ch \in {2, 3, 5} -> Binary(ch, list[rec.r + 1], list[rec.c + 1])
      [] ch \in {4, 6}    -> ByScalar(ch, list[rec.r + 1], rec.v)
      [] OTHER             -> Unary(ch, list[rec.r + 1])

Handled == last.op = "menu"

C27_AppendOnly ==
    [][/\ Len(matrices') \in {Len(matrices), Len(matrices) + 1}
       /\ SubSeq(matrices', 1, Len(matrices)) = matrices
       /\ (Handled' /\ choice' = 1) =>
             IF last'.r > 0 /\ last'.c > 0
             THEN /\ ~last'.err
                  /\ matrices' = Append(matrices, last'.result)
             ELSE last'.err /\ matrices' = matrices /\ choice' # 0
       /\ (Handled' /\ choice' \in Deriving) =>
             IF ~NamedValid(matrices, choice', last')
             THEN ~last'.err /\ matrices' = matrices /\ choice' # 0
             ELSE IF Derived(matrices, choice', last').err
             THEN last'.err /\ matrices' = matrices /\ choice' # 0
             ELSE /\ ~last'.err
                  /\ matrices' = Append(matrices, Derived(matrices, choice', last').m)
       /\ (Handled' /\ choice' \notin Deriving \cup {1}) => matrices' = matrices
      ]_vars

\* a derive choice on a list of two different matrices threw: the list is as
\* it was
C27_Witness ==
    /\ Handled /\ last.err /\ choice \in Deriving
    /\ Len(matrices) = 2
    /\ matrices[1].rowList # <<>>
    /\ matrices[2] # matrices[1]

(***************************************************************************)
(* C28. For every scalar k with |k| >= eps, scalarDivide(M, k) returns a   *)
(* matrix whose cell (r,c) reads get_M(r,c) / k in every cell where that   *)
(* quotient has magnitude >= eps, also when |1/k| < eps (a divisor of      *)
(* magnitude above 1/eps applied to large stored values).  Stated for the  *)
(* divisors whose reciprocal and the cells whose quotient are values of    *)
(* the grid, so that no rounding takes part.                               *)
(***************************************************************************)
ExactReciprocal(k) == (One * One) % Abs(k) = 0

ExactQuotient(v, k) == (v * One) % Abs(k) = 0

C28_ScalarDivideQuotients ==
    (last.op = "scalarDivide" /\ Abs(last.v) >= Eps /\ ExactReciprocal(last.v)) =>
        /\ ~last.err
        /\ \A x \in Cells(last.before.rows, last.before.cols) :
              LET v == CellValue(last.before, x[1], x[2]) IN
              (ExactQuotient(v, last.v) /\ Abs(Div(v, last.v)) >= Eps) =>
                  get(last.result, x[1], x[2]).value = Div(v, last.v)

(***************************************************************************)
(* C29. The stored structure is canonical: two matrices of the same        *)
(* dimensions, built by any two sequences of successful in-range insert    *)
(* calls that leave the same get(r,c) value in every cell, hold exactly    *)
(* the same rows and the same elements in the same order.  Stated through  *)
(* the normal form: a successful in-range insert into a matrix without     *)
(* empty rows leaves no empty row, and a matrix without empty rows is the  *)
(* matrix that the row-by-row inserts of readMatrix build from its get     *)
(* values, which depends on nothing but those values.                      *)
(***************************************************************************)
Canonical(m) ==
    readMatrix(m.rows, m.cols,
               [x \in Cells(m.rows, m.cols) |-> get(m, x[1], x[2]).value])

C29_CanonicalStructure ==
    /\ NoEmptyRow(This) => This = Canonical(This)
    /\ (/\ last.op = "insert" /\ ~last.err
        /\ InRange(last.before, last.r, last.c)
        /\ NoEmptyRow(last.before)) => NoEmptyRow(This)

\* the only element of a row between two stored rows has just been removed,
\* or a row has just been stored in front of the rows held
C29_Witness ==
    /\ last.op = "insert" /\ ~last.err
    /\ InRange(last.before, last.r, last.c)
    /\ NoEmptyRow(last.before)
    /\ Len(last.before.rowList) >= 2
    /\ \/ /\ Abs(last.v) < Eps
          /\ Len(rowList) < Len(last.before.rowList)
          /\ last.before.rowList[1].row < last.r
       \/ /\ Abs(last.v) >= Eps
          /\ last.before.rowList[1].row > last.r
    /\ This = Canonical(This)

====
